---- MODULE Spec2Model ----
(***************************************************************************)
(* ExaChat client service: the history truncator                           *)
(* (truncateConversationHistory) and the stream aggregator (the read loop  *)
(* of fetchResponse), modelled from the K-window version of the service    *)
(* file.                                                                   *)
(*                                                                         *)
(* Several specifications share the module and its initial state; each     *)
(* leaves the variables of the others unchanged.  SpecTrunc builds message *)
(* lists and applies the truncator to them.  SpecStream runs one           *)
(* fetchResponse call from the first reader.read() to its return or        *)
(* rejection, against a server that emits newline-delimited JSON lines and *)
(* a transport that cuts the byte stream into chunks wherever it likes.    *)
(* SpecTurns follows the message list of one thread over several turns.    *)
(* SpecWait extracts the wait time from the message of a 429 response.     *)
(* SpecRequest runs one fetchResponse call from its arguments to the       *)
(* handling of the response.  SpecStore runs requests to the thread        *)
(* endpoints against RedisService.  SpecUpdate applies the updates of one  *)
(* fetchResponse call through updateMessages.  SpecFail and SpecRace run   *)
(* the store operations one Redis command at a time, with rejecting        *)
(* commands and with two interleaved callers.  SpecAuth is the             *)
(* authentication dialog.                                                  *)
(***************************************************************************)
EXTENDS Integers, Sequences, FiniteSets, TLC

VARIABLES
    \* ---- history truncator ----
    tmessages,   \* the messages argument of truncateConversationHistory
    tmodel,      \* the modelId argument (NoModel before the call)
    tresult,     \* the returned list
    tpc,         \* "build" while the list grows, "done" after the call
    \* ---- server and transport ----
    emitted,     \* every line the server has written, in order
    serverBuf,   \* symbols written by the server and not yet delivered
    closed,      \* the server has closed the stream
    arrived,     \* fragments of the well-formed lines delivered so far
    badLines,    \* number of delivered lines that were not valid JSON
    \* ---- fetchResponse ----
    pc,          \* position in fetchResponse
    lines,       \* lines of the current chunk still to be processed
    data,        \* result of JSON.parse for the current line
    content,     \* let content = ''
    citations,   \* let citations = undefined
    startTime,   \* let startTime = null (0)
    now,         \* Date.now()
    messages,    \* the UI message list held behind setMessages
    returned,    \* value the call resolved with (<<>> while none)
    toasts,      \* notifications shown by the catch block
    uploads,     \* number of onFileUploaded callbacks made
    failure,     \* why the call rejected: "none", "abort" or "network"
    \* ---- one thread over several turns ----
    thread,      \* the thread's message list
    isLoading,   \* the UI's submit lock
    upc,         \* "idle", "streaming", "resolved" or "rejected"
    uturn,       \* id of the assistant message of the turn in flight
    \* ---- wait-time extraction ----
    whint,       \* the parts the error message was written from
    wmessage,    \* errorData.error.message, as a sequence of characters
    wwait,       \* waitTime
    wpc,         \* "start" before, "done" after the extraction
    \* ---- fetchResponse: the request and its failure handling ----
    qcall,       \* the arguments of the call
    qpc,         \* "start", "awaiting", "streaming", "resolved", "rejected"
    qrequests,   \* the fetch calls made, in order
    qresponse,   \* what the fetch gave back (NoResponse before)
    qtoasts,     \* titles of the toast.error calls, in order
    qerror,      \* the error the call rejects with (None before)
    \* ---- thread store and thread endpoints ----
    kv,          \* Redis string keys: key -> JSON text
    lists,       \* Redis list keys: key -> sequence of JSON texts
    clock,       \* new Date(), as a counter
    threadCount, \* number of crypto.randomUUID() calls so far
    reply,       \* the answer to the last endpoint request
    hist,        \* per created thread id: who created it, with what, when
    \* ---- updateMessages: the list behind setMessages ----
    mlist,       \* the message list the owner of setMessages holds
    msetter,     \* "dispatch" (React state setter) or "callback"
    mcontent,    \* the content buffer of the call
    mcitations,  \* the citations of the call
    mpc,         \* "idle", "running", "returned", "rejected"
    \* ---- RedisService, one Redis command at a time ----
    ckv,         \* Redis string keys: key -> JSON text
    clists,      \* Redis list keys: key -> sequence of JSON texts
    procs,       \* per caller: the store operation it runs and where it is
    created,     \* number of crypto.randomUUID() calls so far
    begun,       \* number of operations started so far
    \* ---- AuthDialog ----
    aOpen,       \* isOpen: the dialog is shown
    aTab,        \* activeTab
    aEmail,      \* email
    aPassword,   \* password
    aName,       \* name
    aSubmitting, \* isSubmitting
    aError,      \* error shown in the form, None when null
    aResult,     \* what signIn or signUp returned to the last submit
    aFired,      \* onSuccess was called by the last submit
    apc          \* "idle", or "awaiting" signIn / signUp

tvars == <<tmessages, tmodel, tresult, tpc>>
svars == <<emitted, serverBuf, closed, arrived, badLines, pc, lines, data,
           content, citations, startTime, now, messages, returned, toasts,
           uploads, failure>>
uvars == <<thread, isLoading, upc, uturn>>
wvars == <<whint, wmessage, wwait, wpc>>
qvars == <<qcall, qpc, qrequests, qresponse, qtoasts, qerror>>
rvars == <<kv, lists, clock, threadCount, reply, hist>>
mvars == <<mlist, msetter, mcontent, mcitations, mpc>>
cvars == <<ckv, clists, procs, created, begun>>
avars == <<aOpen, aTab, aEmail, aPassword, aName, aSubmitting, aError, aResult, aFired, apc>>
vars == <<tmessages, tmodel, tresult, tpc, emitted, serverBuf, closed,
          arrived, badLines, pc, lines, data, content, citations, startTime,
          now, messages, returned, toasts, uploads, failure,
          thread, isLoading, upc, uturn, whint, wmessage, wwait, wpc,
          qcall, qpc, qrequests, qresponse, qtoasts, qerror,
          kv, lists, clock, threadCount, reply, hist,
          mlist, msetter, mcontent, mcitations, mpc,
          ckv, clists, procs, created, begun,
          aOpen, aTab, aEmail, aPassword, aName, aSubmitting, aError, aResult, aFired, apc>>

\* what the actions of one specification leave alone
notT == <<svars, uvars, wvars, qvars, rvars, mvars, cvars, avars>>
notS == <<tvars, uvars, wvars, qvars, rvars, mvars, cvars, avars>>
notU == <<tvars, svars, wvars, qvars, rvars, mvars, cvars, avars>>
notW == <<tvars, svars, uvars, qvars, rvars, mvars, cvars, avars>>
notQ == <<tvars, svars, uvars, wvars, rvars, mvars, cvars, avars>>
notR == <<tvars, svars, uvars, wvars, qvars, mvars, cvars, avars>>
notM == <<tvars, svars, uvars, wvars, qvars, rvars, cvars, avars>>
notC == <<tvars, svars, uvars, wvars, qvars, rvars, mvars, avars>>
notA == <<tvars, svars, uvars, wvars, qvars, rvars, mvars, cvars>>

----------------------------------------------------------------------------
(* Bounds *)

\* longest message list handed to the truncator
MaxMsgs == 11
\* how many messages of a list may carry a long content
MaxLongMsgs == 1
\* how many lines the server writes in one response
MaxEmit == 3

----------------------------------------------------------------------------
(* Generic helpers *)

\* Array.prototype.slice(-n)
SliceLast(s, n) ==
    IF Len(s) <= n THEN s ELSE SubSeq(s, Len(s) - n + 1, Len(s))

RECURSIVE Flatten(_)
Flatten(ss) == IF ss = <<>> THEN <<>> ELSE Head(ss) \o Flatten(Tail(ss))

----------------------------------------------------------------------------
(* History truncator *)

K_MESSAGE_PAIRS == 5

Roles == {"user", "assistant"}
Sizes == {"short", "long"}
ModelIds == {"exa", "gemini-2.0-flash", "llama-3.3-70b-versatile"}
NoModel == "none"

IsUser(m) == m.role = "user"

\* mutant: the search rule without the user-message substitution
truncateNoSubstitution(msgs, modelId) ==
    IF modelId = "exa" THEN SliceLast(msgs, 3)
    ELSE IF Len(msgs) <= K_MESSAGE_PAIRS * 2 THEN msgs
    ELSE SliceLast(msgs, K_MESSAGE_PAIRS * 2)

\* mutant: the three-message rule of the search model applied to every model
truncateAlwaysThree(msgs, modelId) ==
    LET recentMessages == SliceLast(msgs, 3)
        userMessages == SelectSeq(msgs, IsUser)
        n == Len(recentMessages)
    IN  IF n > 0 /\ recentMessages[n].role # "user" /\ Len(userMessages) > 0
        THEN [recentMessages EXCEPT ![n] = userMessages[Len(userMessages)]]
        ELSE recentMessages

\* mutant: the window keeps one message more than 2K
truncateOffByOne(msgs, modelId) ==
    IF modelId = "exa" THEN truncateAlwaysThree(msgs, modelId)
    ELSE IF Len(msgs) <= K_MESSAGE_PAIRS * 2 THEN msgs
    ELSE SliceLast(msgs, K_MESSAGE_PAIRS * 2 + 1)

\* mutant: the substitution appends the user message instead of replacing
truncateAppendUser(msgs, modelId) ==
    IF modelId = "exa"
    THEN LET recentMessages == SliceLast(msgs, 3)
             userMessages == SelectSeq(msgs, IsUser)
             n == Len(recentMessages)
         IN  IF n > 0 /\ recentMessages[n].role # "user"
                /\ Len(userMessages) > 0
             THEN Append(recentMessages, userMessages[Len(userMessages)])
             ELSE recentMessages
    ELSE IF Len(msgs) <= K_MESSAGE_PAIRS * 2 THEN msgs
    ELSE SliceLast(msgs, K_MESSAGE_PAIRS * 2)

truncateConversationHistory(msgs, modelId) ==
    IF modelId = "exa"
    THEN LET recentMessages == SliceLast(msgs, 3)
             userMessages == SelectSeq(msgs, IsUser)
             n == Len(recentMessages)
         IN  IF n > 0 /\ recentMessages[n].role # "user"
                /\ Len(userMessages) > 0
             THEN [recentMessages EXCEPT
                      ![n] = userMessages[Len(userMessages)]]
             ELSE recentMessages
    ELSE LET maxMessages == K_MESSAGE_PAIRS * 2
         IN  IF Len(msgs) <= maxMessages THEN msgs
             ELSE SliceLast(msgs, maxMessages)

LongCount(msgs) == Cardinality({i \in 1..Len(msgs) : msgs[i].size = "long"})

\* The caller's list grows by one message; ids are unique.
PushMessage ==
    /\ tpc = "build"
    /\ Len(tmessages) < MaxMsgs
    /\ \E r \in Roles, z \in Sizes :
         /\ z = "long" => LongCount(tmessages) < MaxLongMsgs
         /\ tmessages' = Append(tmessages,
                [id |-> Len(tmessages) + 1, role |-> r, size |-> z])
    /\ UNCHANGED <<tmodel, tresult, tpc>>
    /\ UNCHANGED notT

CallTruncate ==
    /\ tpc = "build"
    /\ \E m \in ModelIds :
         /\ tmodel' = m
         /\ tresult' = truncateConversationHistory(tmessages, m)
    /\ tpc' = "done"
    /\ UNCHANGED tmessages
    /\ UNCHANGED notT

----------------------------------------------------------------------------
(* Wire format: what the server routes write and what the transport cuts *)

\* An optional value is a sequence of length 0 (undefined) or 1.
None == <<>>
Some(v) == <<v>>

\* A parsed line.  cit: the citations property; delta: the text of
\* choices[0].delta.content ("" is <<>>); fin: "none" when the line has no
\* finish_reason key, "stop" when it carries one; file: a file_uploaded
\* event with data.
Frag(c, d, f, u) == [cit |-> c, delta |-> d, fin |-> f, file |-> u]
EmptyFrag == Frag(None, <<>>, "none", FALSE)

Frags == {
    Frag(None, <<"a">>, "none", FALSE),
    Frag(None, <<"b">>, "stop", FALSE),
    Frag(Some(<<"x">>), <<>>, "none", FALSE),
    Frag(Some(<<"y">>), <<>>, "none", FALSE),
    Frag(None, <<>>, "stop", FALSE),
    Frag(None, <<>>, "none", TRUE),
    Frag(Some(<<"x">>), <<"b">>, "none", FALSE) }

\* A line the server writes: JSON.stringify(f) + '\n', or a line that is
\* not JSON.
ServerLines ==
    {[k |-> "json", f |-> f] : f \in Frags}
        \cup {[k |-> "junk", f |-> EmptyFrag]}

Sym(k, f) == [k |-> k, f |-> f]
NL == Sym("nl", EmptyFrag)

\* The text of a JSON object is cut into two symbols, so that a chunk
\* boundary can fall inside it.
Serialize(l) ==
    IF l.k = "json" THEN <<Sym("head", l.f), Sym("close", EmptyFrag), NL>>
    ELSE <<Sym("junk", EmptyFrag), NL>>

\* chunk.split('\n')
RECURSIVE SplitAcc(_, _)
SplitAcc(s, cur) ==
    IF s = <<>> THEN <<cur>>
    ELSE IF Head(s).k = "nl" THEN <<cur>> \o SplitAcc(Tail(s), <<>>)
    ELSE SplitAcc(Tail(s), Append(cur, Head(s)))

NonBlank(l) == l # <<>>

\* chunk.split('\n').filter(line => line.trim())
SplitLines(chunk) == SelectSeq(SplitAcc(chunk, <<>>), NonBlank)

\* The text is one complete JSON object.
IsValidJSON(l) == Len(l) = 2 /\ l[1].k = "head" /\ l[2].k = "close"

\* JSON.parse(line): ok = FALSE stands for the SyntaxError it throws.
JSONParse(l) ==
    IF IsValidJSON(l) THEN [ok |-> TRUE, value |-> l[1].f]
    ELSE [ok |-> FALSE, value |-> EmptyFrag]

----------------------------------------------------------------------------
(* fetchResponse: the stream loop and the final update *)

\* The assistantMessage argument, a placeholder the caller has already put
\* in the list after the user's message.
UserMessage ==
    [id |-> 1, role |-> "user", content |-> <<"q">>, citations |-> None,
     completed |-> TRUE, startTime |-> 0, endTime |-> 0]
assistantMessage ==
    [id |-> 2, role |-> "assistant", content |-> <<>>, citations |-> None,
     completed |-> FALSE, startTime |-> 0, endTime |-> 0]

\* the caller passes an onFileUploaded callback
onFileUploadedGiven == TRUE

\* prev.map(msg => msg.id === assistantMessage.id ? f(msg) : msg)
MapById(prev, id, f(_)) ==
    [i \in 1..Len(prev) |-> IF prev[i].id = id THEN f(prev[i]) ELSE prev[i]]

\* line.includes('"finish_reason"') || ... || data.choices[0]?.finish_reason
\* (truthiness of the value stored in completed)
isEndOfStream(d) == d.fin # "none"

\* mutant: a line that fails to parse ends the processing of its chunk
dropRestOfChunk(ls) == <<>>

\* catch { continue; }: the lines still to be processed after a SyntaxError
onParseError(ls) == Tail(ls)

\* citations = data.citations
citationsAssign(old, c) == Some(c)

\* mutant: the running buffer is replaced by the delta
contentReplace(old, d) == d

\* content += newContent
contentAppend(old, d) == old \o d

\* { ...msg, citations: data.citations }
CitationsUpdate(msg, c) == [msg EXCEPT !.citations = Some(c)]

\* { ...msg, content, completed: isEndOfStream, startTime }
ContentUpdate(msg, c, e, st) ==
    [msg EXCEPT !.content = c, !.completed = e, !.startTime = st]

\* mutant: the final message is not marked completed
finalMessageNotCompleted(c, cits, st, et) ==
    [assistantMessage EXCEPT !.content = c, !.citations = cits,
                             !.startTime = st, !.endTime = et]

\* { ...assistantMessage, content, citations, completed: true, startTime,
\*   endTime }; the throughput estimate is real-valued and left out.
finalMessage(c, cits, st, et) ==
    [assistantMessage EXCEPT !.content = c, !.citations = cits,
                             !.completed = TRUE, !.startTime = st,
                             !.endTime = et]

Target == CHOOSE i \in 1..Len(messages) : messages[i].id = assistantMessage.id

AfterLine(rest) == IF rest = <<>> THEN "read" ELSE "line"

ValidFrags(ls) ==
    LET v == SelectSeq(ls, IsValidJSON)
    IN  [i \in 1..Len(v) |-> v[i][1].f]

\* One of the route handlers enqueues a line.
ServerEmit ==
    /\ pc = "read"
    /\ ~closed
    /\ Len(emitted) < MaxEmit
    /\ \E l \in ServerLines :
         /\ emitted' = Append(emitted, l)
         /\ serverBuf' = serverBuf \o Serialize(l)
    /\ UNCHANGED <<closed, arrived, badLines, pc, lines, data, content,
                   citations, startTime, now, messages, returned, toasts,
                   uploads, failure>>
    /\ UNCHANGED notS

\* controller.close()
ServerClose ==
    /\ pc = "read"
    /\ ~closed
    /\ closed' = TRUE
    /\ UNCHANGED <<emitted, serverBuf, arrived, badLines, pc, lines, data,
                   content, citations, startTime, now, messages, returned,
                   toasts, uploads, failure>>
    /\ UNCHANGED notS

\* reader.read() resolves with a chunk: any non-empty prefix of what the
\* server has written; the chunk is decoded, split and filtered.
ReadChunk ==
    /\ pc = "read"
    /\ serverBuf # <<>>
    /\ \E n \in 1..Len(serverBuf) :
         LET chunk == SubSeq(serverBuf, 1, n)
             ls == SplitLines(chunk)
         IN  /\ serverBuf' = SubSeq(serverBuf, n + 1, Len(serverBuf))
             /\ lines' = ls
             /\ arrived' = arrived \o ValidFrags(ls)
             /\ badLines' = badLines + Len(ls) - Len(ValidFrags(ls))
             /\ pc' = AfterLine(ls)
    /\ UNCHANGED <<emitted, closed, data, content, citations, startTime,
                   now, messages, returned, toasts, uploads, failure>>
    /\ UNCHANGED notS

\* JSON.parse(line) and the citations branch.  A SyntaxError is caught and
\* the loop continues with the next line.  The clock advances with every
\* line taken from the chunk.
ProcessLineCitations ==
    /\ pc = "line"
    /\ now' = now + 1
    /\ LET r == JSONParse(Head(lines))
       IN  IF ~r.ok
           THEN /\ lines' = onParseError(lines)
                /\ pc' = AfterLine(onParseError(lines))
                /\ UNCHANGED <<data, citations, messages>>
           ELSE /\ data' = r.value
                /\ pc' = "content"
                /\ IF r.value.cit # None
                   THEN /\ citations' = citationsAssign(citations, r.value.cit[1])
                        /\ messages' = MapById(messages, assistantMessage.id,
                               LAMBDA m : CitationsUpdate(m, r.value.cit[1]))
                   ELSE UNCHANGED <<citations, messages>>
                /\ UNCHANGED lines
    /\ UNCHANGED <<emitted, serverBuf, closed, arrived, badLines, content,
                   startTime, returned, toasts, uploads, failure>>
    /\ UNCHANGED notS

\* The file_uploaded branch and the content branch of the same line.
ProcessLineContent ==
    /\ pc = "content"
    /\ IF data.file /\ onFileUploadedGiven
       THEN /\ uploads' = uploads + 1
            /\ UNCHANGED <<content, startTime, messages>>
       ELSE /\ UNCHANGED uploads
            /\ IF data.delta # <<>>
               THEN LET newContent == data.delta
                        c == contentAppend(content, newContent)
                        st == IF startTime = 0 /\ Len(newContent) > 0
                              THEN now ELSE startTime
                    IN  /\ content' = c
                        /\ startTime' = st
                        /\ messages' = MapById(messages, assistantMessage.id,
                               LAMBDA m : ContentUpdate(m, c,
                                              isEndOfStream(data), st))
               ELSE UNCHANGED <<content, startTime, messages>>
    /\ lines' = Tail(lines)
    /\ pc' = AfterLine(Tail(lines))
    /\ data' = EmptyFrag
    /\ UNCHANGED <<emitted, serverBuf, closed, arrived, badLines, citations,
                   now, returned, toasts, failure>>
    /\ UNCHANGED notS

\* reader.read() resolves with done: the loop ends, the final message is
\* built, pushed to the list and returned.
ReadDone ==
    /\ pc = "read"
    /\ serverBuf = <<>>
    /\ closed
    /\ LET endTime == now + 1
           finalAssistantMessage ==
               finalMessage(content, citations, startTime, endTime)
       IN  /\ messages' = MapById(messages, assistantMessage.id,
                              LAMBDA m : finalAssistantMessage)
           /\ returned' = Some(finalAssistantMessage)
           /\ now' = endTime
    /\ pc' = "done"
    /\ UNCHANGED <<emitted, serverBuf, closed, arrived, badLines, lines,
                   data, content, citations, startTime, toasts, uploads,
                   failure>>
    /\ UNCHANGED notS

\* reader.read() rejects with a network failure: the catch block shows the
\* generic notification and rethrows.
ReadError ==
    /\ pc = "read"
    /\ toasts' = Append(toasts, "Error processing request")
    /\ pc' = "rejected"
    /\ failure' = "network"
    /\ UNCHANGED <<emitted, serverBuf, closed, arrived, badLines, lines,
                   data, content, citations, startTime, now, messages,
                   returned, uploads>>
    /\ UNCHANGED notS

\* mutant: the catch block puts the placeholder back
AbortReverting ==
    /\ pc = "read"
    /\ toasts' = Append(toasts, "Error processing request")
    /\ pc' = "rejected"
    /\ failure' = "abort"
    /\ messages' = [i \in 1..Len(messages) |->
                        IF messages[i].id = assistantMessage.id
                        THEN assistantMessage ELSE messages[i]]
    /\ UNCHANGED <<emitted, serverBuf, closed, arrived, badLines, lines,
                   data, content, citations, startTime, now, returned,
                   uploads>>
    /\ UNCHANGED notS

\* The caller calls abortController.abort() while the call waits in
\* reader.read(): the read rejects with an AbortError, which the catch block
\* treats like any other error.
Abort ==
    /\ pc = "read"
    /\ toasts' = Append(toasts, "Error processing request")
    /\ pc' = "rejected"
    /\ failure' = "abort"
    /\ UNCHANGED <<emitted, serverBuf, closed, arrived, badLines, lines,
                   data, content, citations, startTime, now, messages,
                   returned, uploads>>
    /\ UNCHANGED notS

----------------------------------------------------------------------------
(* One thread over several turns.  fetchResponse is reduced to the updates *)
(* it makes to the completed flag and the content of its message; the      *)
(* caller that appends the messages and holds the submit lock is taken     *)
(* from the specification's sections 3 and 5.                              *)

\* how many turns are submitted
MaxTurns == 3
\* how many content deltas one turn receives
MaxDeltas == 2

\* The user submits: the caller appends the user's message and the
\* assistant placeholder and locks the form.
Submit ==
    /\ ~isLoading
    /\ upc = "idle"
    /\ Len(thread) < 2 * MaxTurns
    /\ thread' = thread \o
           <<[id |-> Len(thread) + 1, role |-> "user", size |-> 1,
              completed |-> TRUE],
             [id |-> Len(thread) + 2, role |-> "assistant", size |-> 0,
              completed |-> FALSE]>>
    /\ uturn' = Len(thread) + 2
    /\ isLoading' = TRUE
    /\ upc' = "streaming"
    /\ UNCHANGED notU

\* the content branch: { ...msg, content, completed: isEndOfStream }
TurnDelta ==
    /\ upc = "streaming"
    /\ \E i \in 1..Len(thread), fin \in {"none", "stop"} :
         /\ thread[i].id = uturn
         /\ thread[i].size < MaxDeltas
         /\ thread' = [thread EXCEPT
                ![i].size = @ + 1,
                ![i].completed = isEndOfStream(Frag(None, <<"a">>, fin, FALSE))]
    /\ UNCHANGED <<isLoading, upc, uturn>>
    /\ UNCHANGED notU

\* the final update: completed: true, and the call resolves
TurnDone ==
    /\ upc = "streaming"
    /\ thread' = [i \in 1..Len(thread) |->
                     IF thread[i].id = uturn
                     THEN [thread[i] EXCEPT !.completed = TRUE]
                     ELSE thread[i]]
    /\ upc' = "resolved"
    /\ UNCHANGED <<isLoading, uturn>>
    /\ UNCHANGED notU

\* the request or a read fails, or the caller aborts: the catch block
\* notifies and rethrows without touching the message
TurnFail ==
    /\ upc = "streaming"
    /\ upc' = "rejected"
    /\ UNCHANGED <<thread, isLoading, uturn>>
    /\ UNCHANGED notU

\* the caller sees the call settle and unlocks the form
TurnSettled ==
    /\ upc \in {"resolved", "rejected"}
    /\ isLoading' = FALSE
    /\ upc' = "idle"
    /\ uturn' = 0
    /\ UNCHANGED thread
    /\ UNCHANGED notU

----------------------------------------------------------------------------
(* fetchResponse: the wait time of a 429 response *)

\* longest integer part of the number in a hint
MaxDigits == 4

\* "try again in " is one symbol of a message; digits, the dot and letters
\* are symbols of their own.
TryAgainIn == "try again in "
Digits == {"0", "1", "2", "3", "4", "5", "6", "7", "8", "9"}
UnitChars == {"m", "s"}

DigitValue(c) ==
    CASE c = "0" -> 0 [] c = "1" -> 1 [] c = "2" -> 2 [] c = "3" -> 3
      [] c = "4" -> 4 [] c = "5" -> 5 [] c = "6" -> 6 [] c = "7" -> 7
      [] c = "8" -> 8 [] c = "9" -> 9

\* length of the longest run of symbols of set cs that starts at position i
RECURSIVE RunLength(_, _, _)
RunLength(msg, i, cs) ==
    IF i <= Len(msg) /\ msg[i] \in cs THEN 1 + RunLength(msg, i + 1, cs)
    ELSE 0

\* /try again in (\d+\.?\d*)([ms]+)/ tried at position i.  Every quantifier
\* is greedy and none can give a symbol back to the next, so the match is
\* the greedy one or none.
RegexAt(msg, i) ==
    LET n1 == RunLength(msg, i + 1, Digits)
        afterInt == i + 1 + n1
        dot == IF afterInt <= Len(msg) /\ msg[afterInt] = "." THEN 1 ELSE 0
        n2 == RunLength(msg, afterInt + dot, Digits)
        unitAt == afterInt + dot + n2
        nu == RunLength(msg, unitAt, UnitChars)
    IN  [ok |-> msg[i] = TryAgainIn /\ n1 >= 1 /\ nu >= 1,
         int |-> SubSeq(msg, i + 1, i + n1),
         frac |-> SubSeq(msg, afterInt + dot, afterInt + dot + n2 - 1),
         unit |-> SubSeq(msg, unitAt, unitAt + nu - 1)]

NoMatch == [ok |-> FALSE, int |-> <<>>, frac |-> <<>>, unit |-> <<>>]

\* message.match(...): the leftmost match, or NoMatch for null
RegexMatch(msg) ==
    LET hits == {i \in 1..Len(msg) : RegexAt(msg, i).ok}
    IN  IF hits = {} THEN NoMatch
        ELSE RegexAt(msg, CHOOSE i \in hits : \A j \in hits : i <= j)

\* value of a run of digits
RECURSIVE Numeral(_)
Numeral(ds) ==
    IF ds = <<>> THEN 0
    ELSE 10 * Numeral(SubSeq(ds, 1, Len(ds) - 1)) + DigitValue(ds[Len(ds)])

NonZero(ds) == \E i \in 1..Len(ds) : ds[i] # "0"

\* mutant: milliseconds are rounded down
waitTimeOfFloor(int, frac, unit) ==
    IF unit = <<"m", "s">> THEN Numeral(int) \div 1000
    ELSE Numeral(int) + (IF NonZero(frac) THEN 1 ELSE 0)

\* parseFloat, then Math.ceil(timeValue / 1000) for 'ms' and
\* Math.ceil(timeValue) for any other unit
waitTimeOf(int, frac, unit) ==
    IF unit = <<"m", "s">>
    THEN (Numeral(int) \div 1000)
            + (IF Numeral(int) % 1000 # 0 \/ NonZero(frac) THEN 1 ELSE 0)
    ELSE Numeral(int) + (IF NonZero(frac) THEN 1 ELSE 0)

DefaultWaitTime == 30

\* a string that is neither undefined nor empty
Truthy(opt) == opt # None /\ opt[1] # <<>>

\* let waitTime = 30; if (errorData.error && errorData.error.message) ...
\* message is None when the body has no error.message.
extractWaitTime(message) ==
    IF ~Truthy(message) THEN DefaultWaitTime
    ELSE LET waitTimeMatch == RegexMatch(message[1])
         IN  IF waitTimeMatch.ok
             THEN waitTimeOf(waitTimeMatch.int, waitTimeMatch.frac,
                             waitTimeMatch.unit)
             ELSE DefaultWaitTime

\* sequences over cs of length 0..n
SeqsUpTo(cs, n) == UNION {[1..k -> cs] : k \in 0..n}

\* The parts an upstream error message is written from: what precedes the
\* number, its integer digits, an optional dot with fraction digits, the
\* letters of the unit and what follows.
HintParts ==
    [pre : {<<>>, <<TryAgainIn>>, <<"Rate limit reached. ", TryAgainIn>>,
            <<"Please wait ">>},
     int : SeqsUpTo({"0", "1", "5"}, MaxDigits),
     dot : {<<>>, <<".">>, <<".", "0">>, <<".", "5">>},
     unit : SeqsUpTo(UnitChars, 2),
     post : {<<>>, <<".">>, <<" ">>}]

HintText(h) == h.pre \o h.int \o h.dot \o h.unit \o h.post

\* A 429 response with a JSON body carrying error.message arrives and the
\* wait time is extracted from it.
ParseHint ==
    /\ wpc = "start"
    /\ \E h \in HintParts :
         /\ whint' = h
         /\ wmessage' = Some(HintText(h))
         /\ wwait' = extractWaitTime(Some(HintText(h)))
    /\ wpc' = "done"
    /\ UNCHANGED notW

\* A 429 response with a JSON body without error.message arrives.
ParseNoMessage ==
    /\ wpc = "start"
    /\ wmessage' = None
    /\ wwait' = extractWaitTime(None)
    /\ wpc' = "done"
    /\ UNCHANGED whint
    /\ UNCHANGED notW

----------------------------------------------------------------------------
(* fetchResponse: from the call to the first byte of the answer, or to the *)
(* rejection.  Texts are sequences of symbols: a word the code tests for   *)
(* is one symbol, so that includes() and startsWith() are tests on         *)
(* symbols.                                                                *)

\* input.trim()
RECURSIVE TrimLeft(_)
TrimLeft(ts) ==
    IF ts # <<>> /\ Head(ts) = " " THEN TrimLeft(Tail(ts)) ELSE ts

RECURSIVE TrimRight(_)
TrimRight(ts) ==
    IF ts # <<>> /\ ts[Len(ts)] = " "
    THEN TrimRight(SubSeq(ts, 1, Len(ts) - 1)) ELSE ts

Trim(ts) == TrimRight(TrimLeft(ts))

StartsWith(ts, prefix) ==
    Len(ts) >= Len(prefix) /\ SubSeq(ts, 1, Len(prefix)) = prefix

\* s.substring(n): the text after its first n characters.  A symbol of
\* several characters is dropped whole; the inputs below put every cut on
\* a symbol boundary.
RECURSIVE Substring(_, _)
Substring(ts, n) ==
    IF n <= 0 \/ ts = <<>> THEN ts
    ELSE Substring(Tail(ts), n - Len(Head(ts)))

\* s.includes(word)
Includes(ts, word) == \E i \in 1..Len(ts) : ts[i] = word

\* a || b on strings
OrElse(a, b) == IF a # <<>> THEN a ELSE b

\* the value of an optional string where the code tests it with ||
Falsy(opt) == IF opt = None THEN <<>> ELSE opt[1]

\* lines 637-647
parseCommand(input) ==
    LET trimmedInput == Trim(input)
    IN  IF StartsWith(trimmedInput, <<"/movies", " ">>)
        THEN [command |-> "/movies",
              commandQuery |-> Trim(Substring(trimmedInput, 8))]
        ELSE IF StartsWith(trimmedInput, <<"/tv", " ">>)
        THEN [command |-> "/tv",
              commandQuery |-> Trim(Substring(trimmedInput, 5))]
        ELSE [command |-> "null", commandQuery |-> <<>>]

\* if (command && commandQuery)
IsCommand(input) ==
    parseCommand(input).command # "null"
        /\ parseCommand(input).commandQuery # <<>>

NoConfig == [found |-> FALSE, toolCallType |-> "undefined",
             providerId |-> "undefined"]

\* mutant: an identifier without an entry in the table is refused
selectEndpointStrict(selectedModel, modelConfig) ==
    IF selectedModel = <<"exa">> THEN "/api/exaanswer"
    ELSE IF modelConfig.toolCallType = "openrouter"
            \/ selectedModel = <<"gemma3-27b">> THEN "/api/openrouter"
    ELSE IF Includes(selectedModel, "gemini") THEN "/api/gemini"
    ELSE IF modelConfig.providerId = "cerebras" THEN "/api/cerebras"
    ELSE IF modelConfig.providerId = "xai" THEN "/api/xai"
    ELSE IF modelConfig.found THEN "/api/groq"
    ELSE "none"

\* lines 735-753
selectEndpoint(selectedModel, modelConfig) ==
    IF selectedModel = <<"exa">> THEN "/api/exaanswer"
    ELSE IF modelConfig.toolCallType = "openrouter"
            \/ selectedModel = <<"gemma3-27b">> THEN "/api/openrouter"
    ELSE IF Includes(selectedModel, "gemini") THEN "/api/gemini"
    ELSE IF modelConfig.providerId = "cerebras" THEN "/api/cerebras"
    ELSE IF modelConfig.providerId = "xai" THEN "/api/xai"
    ELSE "/api/groq"

\* lines 732, 739-744
useFormDataForGemini(call) ==
    /\ selectEndpoint(call.selectedModel, call.modelConfig) = "/api/gemini"
    /\ call.attachments > 0 \/ call.activeFiles > 0

\* The fetch of the call: the command handler for a slash command, a model
\* endpoint otherwise.
requestOf(call) ==
    IF IsCommand(call.input)
    THEN [endpoint |-> "/api/command-handler", formData |-> FALSE,
          command |-> parseCommand(call.input).command,
          query |-> parseCommand(call.input).commandQuery]
    ELSE [endpoint |-> selectEndpoint(call.selectedModel, call.modelConfig),
          formData |-> useFormDataForGemini(call),
          command |-> "null", query |-> call.input]

\* what the user typed
QueryInputs ==
    {<<"a">>, <<" ", "a", "b", " ">>, <<"/movies">>, <<"/tv", "a">>,
     <<"/movies", " ", "a", " ", "b">>, <<" ", "/movies", " ", " ", "a", " ">>,
     <<"/tv", " ", "a", "b">>, <<"/tv", " ", "a">>}

\* model identifiers: the two the code names, one that contains 'gemini',
\* one that only starts with 'exa', one that matches no rule
ModelNames ==
    {<<"exa">>, <<"gemma3-27b">>, <<"models/", "gemini", "-2.0-flash">>,
     <<"exa", "-pro">>, <<"llama-3.3-70b">>}

\* modelsConfig.models.find(m => m.id === selectedModel): no entry, or an
\* entry with any tool-call type and provider
ModelConfigs ==
    {NoConfig} \cup [found : {TRUE}, toolCallType : {"openrouter", "native"},
                     providerId : {"groq", "cerebras", "xai", "google"}]

Calls ==
    [input : QueryInputs, selectedModel : ModelNames,
     modelConfig : ModelConfigs, attachments : 0..1, activeFiles : 0..1]

NoCall == [input |-> <<>>, selectedModel |-> <<>>, modelConfig |-> NoConfig,
           attachments |-> 0, activeFiles |-> 0]

Response(st, js, stt, msg, emsg, txt, ty, hb) ==
    [status |-> st, json |-> js, statusText |-> stt, message |-> msg,
     errorMessage |-> emsg, text |-> txt, type |-> ty, hasBody |-> hb]

NoResponse == Response(0, FALSE, <<>>, None, None, <<>>, "none", FALSE)

FailureStatuses == {401, 429, 500}

\* response.statusText: the reason phrase, empty over HTTP/2
StatusTexts == {<<>>, <<"reason phrase">>}

ServerTexts ==
    {<<"Server error">>, <<"Authentication", " failed">>,
     <<"Rate limit reached. ", TryAgainIn, "1", "5", "0", "0", "m", "s">>}

\* failures with a JSON body {message?, error: {message?}}
JsonFailures ==
    {Response(st, TRUE, stt, a, b, <<>>, "none", TRUE) :
        st \in FailureStatuses, stt \in StatusTexts,
        a \in {None, Some(<<"Server error">>),
               Some(<<"Authentication", " failed">>)},
        b \in {None} \cup {Some(t) : t \in ServerTexts}}

\* failures with a body of another content type
TextFailures ==
    {Response(st, FALSE, stt, None, None, t, "none", TRUE) :
        st \in FailureStatuses, stt \in StatusTexts,
        t \in {<<>>} \cup ServerTexts}

\* answers with status 200: a stream (or no body) from a model endpoint, a
\* JSON result of some type from the command handler
Successes ==
    {Response(200, TRUE, <<"OK">>, None, None, <<>>, ty, hb) :
        ty \in {"media_result", "no_result", "error", "other"},
        hb \in BOOLEAN}

Responses == JsonFailures \cup TextFailures \cup Successes

\* await response.text()
BodyText(r) ==
    IF r.json THEN <<"{">> \o Falsy(r.message) \o Falsy(r.errorMessage)
                       \o <<"}">>
    ELSE r.text

Error(msg) == [name |-> "Error", message |-> msg, waitTime |-> None]

NoError == Error(<<>>)

Throw(ts, err) ==
    [thrown |-> TRUE, toasts |-> ts, error |-> err, pc |-> "rejected"]

Proceed(next) ==
    [thrown |-> FALSE, toasts |-> <<>>, error |-> NoError, pc |-> next]

AuthenticationRequired ==
    <<"Authentication", " required. Please sign in and try again.">>

\* lines 672-716: the answer of the command handler
commandOutcome(r) ==
    IF r.status # 200
    THEN Throw(<<>>, Error(<<"Command handler failed: ">>
                              \o OrElse(r.statusText, BodyText(r))))
    ELSE IF r.type \in {"media_result", "no_result", "error"}
    THEN Proceed("resolved")
    ELSE Throw(<<>>, Error(<<"Unexpected response type from command handler: ",
                              r.type>>))

\* lines 814-893: the answer of a model endpoint
standardOutcome(r) ==
    IF r.status # 200
    THEN IF r.status = 401
         THEN Throw(<<"Authentication required">>,
                    Error(AuthenticationRequired))
         ELSE IF r.json
         THEN IF r.status = 429
              THEN Throw(<<"RATE LIMIT REACHED">>,
                         [name |-> "RateLimitError",
                          message |-> <<"Rate limit reached">>,
                          waitTime |-> Some(extractWaitTime(r.errorMessage))])
              ELSE Throw(<<>>,
                         Error(OrElse(Falsy(r.message),
                               OrElse(Falsy(r.errorMessage),
                                      <<"API error: ", ToString(r.status)>>))))
         ELSE Throw(<<>>,
                    Error(OrElse(r.text, <<"API request failed with status ",
                                           ToString(r.status)>>)))
    ELSE IF ~r.hasBody THEN Throw(<<>>, Error(<<"Response body is null">>))
    ELSE Proceed("streaming")

\* lines 966-985: the toasts of the catch block
catchToasts(err) ==
    IF Includes(err.message, "Authentication") THEN <<>>
    ELSE IF err.name = "RateLimitError" THEN <<>>
    ELSE <<"Error processing request">>

\* mutant: the turn is sent to the search endpoint and to a model endpoint
CallFanOut ==
    /\ qpc = "start"
    /\ \E call \in Calls :
         /\ qcall' = call
         /\ qrequests' = qrequests \o <<requestOf(call),
                [requestOf(call) EXCEPT !.endpoint = "/api/exaanswer"]>>
    /\ qpc' = "awaiting"
    /\ UNCHANGED <<qresponse, qtoasts, qerror>>
    /\ UNCHANGED notQ

\* fetchResponse up to its one await fetch(...)
Call ==
    /\ qpc = "start"
    /\ \E call \in Calls :
         /\ qcall' = call
         /\ qrequests' = Append(qrequests, requestOf(call))
    /\ qpc' = "awaiting"
    /\ UNCHANGED <<qresponse, qtoasts, qerror>>
    /\ UNCHANGED notQ

\* The fetch rejects: the network failed, or the caller aborted.
FetchRejects ==
    /\ qpc = "awaiting"
    /\ \E err \in {[name |-> "TypeError", message |-> <<"Failed to fetch">>,
                      waitTime |-> None],
                     [name |-> "AbortError",
                      message |-> <<"The user aborted a request.">>,
                      waitTime |-> None]} :
         /\ qerror' = Some(err)
         /\ qtoasts' = qtoasts \o catchToasts(err)
    /\ qpc' = "rejected"
    /\ UNCHANGED <<qcall, qrequests, qresponse>>
    /\ UNCHANGED notQ

\* The fetch resolves with a response; the call handles it up to the
\* rejection, the completed command answer or the start of the stream loop.
HandleResponse ==
    /\ qpc = "awaiting"
    /\ \E r \in Responses :
         LET out == IF IsCommand(qcall.input) THEN commandOutcome(r)
                    ELSE standardOutcome(r)
         IN  /\ qresponse' = r
             /\ qpc' = out.pc
             /\ qerror' = IF out.thrown THEN Some(out.error) ELSE None
             /\ qtoasts' = IF out.thrown
                           THEN qtoasts \o out.toasts \o catchToasts(out.error)
                           ELSE qtoasts
    /\ UNCHANGED <<qcall, qrequests>>
    /\ UNCHANGED notQ

----------------------------------------------------------------------------
(* RedisService and the thread endpoints.  Keys are strings built as the   *)
(* code builds them; a stored value is the JSON text of a record.  Each    *)
(* endpoint request runs to its answer before the next one starts.         *)

\* threads created over a run
MaxThreads == 2
\* last value of the clock
MaxClock == 2

\* user.id of the authenticated users; Supabase ids are UUIDs, of one
\* length and without ':'
Users == {"u1", "u2"}

\* no session
Anonymous == "anonymous"

\* JSON.stringify / JSON.parse of a record
Stringify(v) == [json |-> v]
Parse(s) == s.json

\* mutant: the key does not name the user
threadKeyShared(userId, threadId) == "thread:" \o threadId

\* `thread:${userId}:${threadId}`
threadKey(userId, threadId) == "thread:" \o userId \o ":" \o threadId

\* `user:${userId}:threads`
listKey(userId) == "user:" \o userId \o ":threads"

Remove(f, k) == [x \in DOMAIN f \ {k} |-> f[x]]
Put(f, k, v) == (k :> v) @@ Remove(f, k)

\* redis.lrange(key, 0, -1)
lrange(ls, key) == IF key \in DOMAIN ls THEN ls[key] ELSE <<>>

\* redis.rpush(key, v)
rpush(ls, key, v) == Put(ls, key, Append(lrange(ls, key), v))

\* threads.filter(t => t.id !== threadId)
RECURSIVE FilterOut(_, _)
FilterOut(threads, threadId) ==
    IF threads = <<>> THEN <<>>
    ELSE (IF Head(threads).id # threadId THEN <<Head(threads)>> ELSE <<>>)
            \o FilterOut(Tail(threads), threadId)

\* lines 177-197
getUserChatThreads(ls, userId) ==
    [i \in 1..Len(lrange(ls, listKey(userId))) |->
        Parse(lrange(ls, listKey(userId))[i])]

\* lines 200-221
getChatThread(k, userId, threadId) ==
    IF threadKey(userId, threadId) \notin DOMAIN k THEN None
    ELSE Some(Parse(k[threadKey(userId, threadId)]))

Summary(id, title, updatedAt) ==
    [id |-> id, title |-> title, updatedAt |-> updatedAt]

\* the value of a field that is not there
Undefined == "undefined"

\* lines 224-252; the function has three parameters and the record it
\* stores has no model
createChatThread(k, ls, userId, title, msgs, threadId, at) ==
    LET th == [id |-> threadId, title |-> title, messages |-> msgs,
               model |-> Undefined, createdAt |-> at, updatedAt |-> at]
    IN  [kv |-> Put(k, threadKey(userId, threadId), Stringify(th)),
         lists |-> rpush(ls, listKey(userId),
                         Stringify(Summary(threadId, title, at))),
         thread |-> Some(th)]

\* threads.findIndex(t => t.id === threadId): 0 for -1
FindIndex(threads, threadId) ==
    LET hits == {i \in 1..Len(threads) : threads[i].id = threadId}
    IN  IF hits = {} THEN 0 ELSE CHOOSE i \in hits : \A j \in hits : i <= j

\* mutant: the summary in the list is not rewritten
updateChatThreadStale(k, ls, userId, threadId, updates, at, asObject) ==
    IF threadKey(userId, threadId) \notin DOMAIN k \/ asObject
    THEN [kv |-> k, lists |-> ls, thread |-> None]
    ELSE LET old == Parse(k[threadKey(userId, threadId)])
             updatedThread ==
                 [old EXCEPT !.messages = updates.messages,
                             !.title = updates.title,
                             !.model = updates.model,
                             !.updatedAt = at]
         IN  [kv |-> Put(k, threadKey(userId, threadId),
                         Stringify(updatedThread)),
              lists |-> ls,
              thread |-> Some(updatedThread)]

\* lines 255-298.  asObject: the client handed the value back already
\* parsed, so that JSON.parse(threadData as string) throws and the catch
\* returns null.
updateChatThread(k, ls, userId, threadId, updates, at, asObject) ==
    IF threadKey(userId, threadId) \notin DOMAIN k \/ asObject
    THEN [kv |-> k, lists |-> ls, thread |-> None]
    ELSE LET old == Parse(k[threadKey(userId, threadId)])
             updatedThread ==
                 [old EXCEPT !.messages = updates.messages,
                             !.title = updates.title,
                             !.model = updates.model,
                             !.updatedAt = at]
             threads == getUserChatThreads(ls, userId)
             threadIndex == FindIndex(threads, threadId)
             threadSummary ==
                 Summary(threadId,
                         IF updatedThread.title # "" THEN updatedThread.title
                         ELSE old.title, at)
         IN  [kv |-> Put(k, threadKey(userId, threadId),
                         Stringify(updatedThread)),
              lists |-> IF threadIndex = 0 THEN ls
                        ELSE [ls EXCEPT ![listKey(userId)][threadIndex] =
                                            Stringify(threadSummary)],
              thread |-> Some(updatedThread)]

\* lines 301-322
deleteChatThread(k, ls, userId, threadId) ==
    IF threadKey(userId, threadId) \notin DOMAIN k
    THEN [kv |-> k, lists |-> ls, ok |-> FALSE]
    ELSE LET threads == getUserChatThreads(ls, userId)
             updatedThreads == FilterOut(threads, threadId)
         IN  [kv |-> Remove(k, threadKey(userId, threadId)),
              lists |-> IF updatedThreads = <<>>
                        THEN Remove(ls, listKey(userId))
                        ELSE Put(ls, listKey(userId),
                                 [i \in 1..Len(updatedThreads) |->
                                     Stringify(updatedThreads[i])]),
              ok |-> TRUE]

Callers == Users \cup {Anonymous}

\* the threadId of the URL: empty, ids the store hands out, and one with
\* a ':' in it
UrlIds == {"", "t1", "t2", "u2:t1"}

\* crypto.randomUUID(): a new id at every call
NewId(n) == "t" \o ToString(n + 1)

InvalidBody == [valid |-> FALSE, messages |-> <<>>, title |-> "",
                model |-> Undefined]

\* request bodies {messages, title, model}; valid: messages is an array
Bodies ==
    {InvalidBody,
     [valid |-> TRUE, messages |-> <<>>, title |-> "", model |-> Undefined]}
        \cup [valid : {TRUE}, messages : {<<"hi">>}, title : {"", "A"},
              model : {Undefined, "llama"}]

NoThreads == <<>>

Reply(op, caller, id, status, th, ths) ==
    [op |-> op, caller |-> caller, id |-> id, status |-> status,
     authRequired |-> status = 401, thread |-> th, threads |-> ths]

NoReply == Reply("none", Anonymous, "", 0, None, NoThreads)

\* title || (messages[0]?.content.substring(0, 50) + '...') || 'New Chat'
threadTitle(body) ==
    IF body.title # "" THEN body.title
    ELSE IF body.messages = <<>> THEN "undefined..."
    ELSE body.messages[1] \o "..."

\* GET /threads
GetThreads ==
    /\ \E caller \in Callers, redisConnected \in BOOLEAN :
         reply' = IF ~redisConnected
                  THEN Reply("GET /threads", caller, "", 503, None, NoThreads)
                  ELSE IF caller = Anonymous
                  THEN Reply("GET /threads", caller, "", 401, None, NoThreads)
                  ELSE Reply("GET /threads", caller, "", 200, None,
                             getUserChatThreads(lists, caller))
    /\ UNCHANGED <<kv, lists, clock, threadCount, hist>>
    /\ UNCHANGED notR

\* POST /threads
PostThreads ==
    /\ threadCount < MaxThreads
    /\ clock < MaxClock
    /\ \E caller \in Callers, body \in Bodies :
         IF ~body.valid \/ caller = Anonymous
         THEN /\ reply' = Reply("POST /threads", caller, "",
                                IF ~body.valid THEN 400 ELSE 401, None,
                                NoThreads)
              /\ UNCHANGED <<kv, lists, clock, threadCount, hist>>
         ELSE LET model == IF body.model = Undefined THEN "exa"
                           ELSE body.model
                  threadId == NewId(threadCount)
                  out == createChatThread(kv, lists, caller,
                                          threadTitle(body), body.messages,
                                          threadId, clock + 1)
              IN  /\ kv' = out.kv
                  /\ lists' = out.lists
                  /\ clock' = clock + 1
                  /\ threadCount' = threadCount + 1
                  /\ hist' = Put(hist, threadId,
                                 [user |-> caller, title |-> threadTitle(body),
                                  messages |-> body.messages, model |-> model,
                                  recency |-> clock + 1, updated |-> FALSE,
                                  deleted |-> FALSE])
                  /\ reply' = Reply("POST /threads", caller, threadId, 200,
                                    out.thread, NoThreads)
    /\ UNCHANGED notR

\* GET /threads/{id}
GetThread ==
    /\ \E caller \in Callers, threadId \in UrlIds :
         reply' = IF threadId = ""
                  THEN Reply("GET", caller, threadId, 400, None, NoThreads)
                  ELSE IF caller = Anonymous
                  THEN Reply("GET", caller, threadId, 401, None, NoThreads)
                  ELSE IF getChatThread(kv, caller, threadId) = None
                  THEN Reply("GET", caller, threadId, 404, None, NoThreads)
                  ELSE Reply("GET", caller, threadId, 200,
                             getChatThread(kv, caller, threadId), NoThreads)
    /\ UNCHANGED <<kv, lists, clock, threadCount, hist>>
    /\ UNCHANGED notR

\* PUT /threads/{id}
PutThread ==
    /\ clock < MaxClock
    /\ \E caller \in Callers, threadId \in UrlIds, body \in Bodies :
         IF threadId = "" \/ ~body.valid \/ caller = Anonymous
         THEN /\ reply' = Reply("PUT", caller, threadId,
                                IF threadId = "" \/ ~body.valid THEN 400
                                ELSE 401, None, NoThreads)
              /\ UNCHANGED <<kv, lists, clock, threadCount, hist>>
         ELSE IF getChatThread(kv, caller, threadId) = None
         THEN /\ reply' = Reply("PUT", caller, threadId, 404, None, NoThreads)
              /\ UNCHANGED <<kv, lists, clock, threadCount, hist>>
         ELSE \E asObject \in BOOLEAN :
              LET existingThread == getChatThread(kv, caller, threadId)[1]
                  updates ==
                      [messages |-> body.messages,
                       title |-> IF body.title # "" THEN body.title
                                 ELSE existingThread.title,
                       model |-> IF body.model # Undefined THEN body.model
                                 ELSE existingThread.model]
                  out == updateChatThread(kv, lists, caller, threadId,
                                          updates, clock + 1, asObject)
              IN  IF out.thread = None
                  THEN /\ reply' = Reply("PUT", caller, threadId, 500, None,
                                         NoThreads)
                       /\ UNCHANGED <<kv, lists, clock, threadCount, hist>>
                  ELSE /\ kv' = out.kv
                       /\ lists' = out.lists
                       /\ clock' = clock + 1
                       /\ hist' = IF threadId \in DOMAIN hist
                                  THEN [hist EXCEPT
                                          ![threadId].recency = clock + 1,
                                          ![threadId].updated = TRUE]
                                  ELSE hist
                       /\ reply' = Reply("PUT", caller, threadId, 200,
                                         out.thread, NoThreads)
                       /\ UNCHANGED threadCount
    /\ UNCHANGED notR

\* DELETE /threads/{id}
DeleteThread ==
    /\ \E caller \in Callers, threadId \in UrlIds :
         IF threadId = "" \/ caller = Anonymous
         THEN /\ reply' = Reply("DELETE", caller, threadId,
                                IF threadId = "" THEN 400 ELSE 401, None,
                                NoThreads)
              /\ UNCHANGED <<kv, lists, hist>>
         ELSE LET out == deleteChatThread(kv, lists, caller, threadId)
              IN  /\ kv' = out.kv
                  /\ lists' = out.lists
                  /\ hist' = IF out.ok /\ threadId \in DOMAIN hist
                             THEN [hist EXCEPT ![threadId].deleted = TRUE]
                             ELSE hist
                  /\ reply' = Reply("DELETE", caller, threadId,
                                    IF out.ok THEN 200 ELSE 500, None,
                                    NoThreads)
    /\ UNCHANGED <<clock, threadCount>>
    /\ UNCHANGED notR

----------------------------------------------------------------------------
(* updateMessages: every update fetchResponse makes goes through it.  The  *)
(* setter is either a React state setter, which takes the updater function *)
(* and applies it to the current list, or a callback of type               *)
(* (messages: Message[]) => void, which takes a list and throws when it is *)
(* handed a function.                                                      *)

\* other messages in the list before the placeholder
MaxOthers == 2

OtherMessage(i) ==
    [UserMessage EXCEPT !.id = 10 + i,
                        !.role = IF i % 2 = 1 THEN "user" ELSE "assistant"]

\* lines 538-559: setMessages(updater); when that throws, the updater is
\* applied to a dummy empty array and setMessages is called with the result
updateMessages(setter, current, updater(_)) ==
    IF setter = "dispatch" THEN updater(current) ELSE updater(<<>>)

\* lines 683-704: the final message of the command path (mediaData and tps
\* left out)
commandFinalMessage(type, at) ==
    [assistantMessage EXCEPT
        !.content = IF type = "media_result" THEN <<"answer">>
                    ELSE <<"message">>,
        !.completed = TRUE,
        !.startTime = IF assistantMessage.startTime # 0
                      THEN assistantMessage.startTime ELSE at,
        !.endTime = at]

\* The caller has put the placeholder in its list, after and before other
\* messages, and calls fetchResponse with its setter.
StartCall ==
    /\ mpc = "idle"
    /\ \E setter \in {"dispatch", "callback"}, b \in 0..MaxOthers,
          a \in 0..1 :
         /\ msetter' = setter
         /\ mlist' = [i \in 1..b |-> OtherMessage(i)]
                        \o <<assistantMessage>>
                        \o [i \in 1..a |-> OtherMessage(b + i)]
    /\ mpc' = "running"
    /\ UNCHANGED <<mcontent, mcitations>>
    /\ UNCHANGED notM

\* lines 906-913: the update of a citations line
UpdateCitations ==
    /\ mpc = "running"
    /\ \E c \in {<<"x">>, <<"y">>} :
         /\ mcitations' = citationsAssign(mcitations, c)
         /\ mlist' = updateMessages(msetter, mlist,
               LAMBDA prev : MapById(prev, assistantMessage.id,
                                     LAMBDA m : CitationsUpdate(m, c)))
    /\ UNCHANGED <<msetter, mcontent, mpc>>
    /\ UNCHANGED notM

\* lines 924-938: the update of a content line
UpdateContent ==
    /\ mpc = "running"
    /\ Len(mcontent) < MaxDeltas
    /\ \E d \in {<<"a">>, <<"b">>}, e \in BOOLEAN :
         /\ mcontent' = contentAppend(mcontent, d)
         /\ mlist' = updateMessages(msetter, mlist,
               LAMBDA prev : MapById(prev, assistantMessage.id,
                   LAMBDA m : ContentUpdate(m, contentAppend(mcontent, d),
                                            e, 1)))
    /\ UNCHANGED <<msetter, mcitations, mpc>>
    /\ UNCHANGED notM

\* lines 943-963: the final update of the streaming path
UpdateFinal ==
    /\ mpc = "running"
    /\ mlist' = updateMessages(msetter, mlist,
          LAMBDA prev : MapById(prev, assistantMessage.id,
              LAMBDA m : finalMessage(mcontent, mcitations, 1, 2)))
    /\ mpc' = "returned"
    /\ UNCHANGED <<msetter, mcontent, mcitations>>
    /\ UNCHANGED notM

\* lines 706-713: the one update of the command path
UpdateCommand ==
    /\ mpc = "running"
    /\ mcontent = <<>> /\ mcitations = None
    /\ \E type \in {"media_result", "no_result", "error"} :
         mlist' = updateMessages(msetter, mlist,
             LAMBDA prev : MapById(prev, assistantMessage.id,
                 LAMBDA m : commandFinalMessage(type, 1)))
    /\ mpc' = "returned"
    /\ UNCHANGED <<msetter, mcontent, mcitations>>
    /\ UNCHANGED notM

\* lines 966-985: an error ends the call without an update
UpdateNone ==
    /\ mpc = "running"
    /\ mpc' = "rejected"
    /\ UNCHANGED <<mlist, msetter, mcontent, mcitations>>
    /\ UNCHANGED notM

----------------------------------------------------------------------------
(* RedisService, one Redis command at a time.  Every await of an operation *)
(* is a step; between two steps of one operation another caller's          *)
(* operation may take steps, and a command may fail (the REST call         *)
(* rejects), which the operation's catch turns into null or false.  All    *)
(* callers act for the same user.                                          *)

\* operations started over a run
MaxOps == 4

Procs == {1, 2}

TheUser == "u1"

IdleOp ==
    [op |-> "none", id |-> "", pc |-> "idle", old |-> None, threads |-> <<>>,
     idx |-> 0, todo |-> <<>>, at |-> 0, result |-> "none",
     kv0 |-> <<>>, lists0 |-> <<>>]

NewOp(op, id, firstPc, at) ==
    [IdleOp EXCEPT !.op = op, !.id = id, !.pc = firstPc, !.at = at,
                   !.kv0 = ckv, !.lists0 = clists]

Done(o, result) == [o EXCEPT !.pc = "done", !.result = result]

\* { id, title, messages, createdAt, updatedAt } of createChatThread
NewThread(id, at) ==
    [id |-> id, title |-> "A", messages |-> <<>>, model |-> Undefined,
     createdAt |-> at, updatedAt |-> at]

\* { ...thread, ...updates, updatedAt: now } with a new title
UpdatedThread(old, at) == [old EXCEPT !.title = "B", !.updatedAt = at]

\* A caller starts createChatThread, updateChatThread or deleteChatThread.
Begin(p) ==
    /\ procs[p].pc \in {"idle", "done"}
    /\ begun < MaxOps
    /\ begun' = begun + 1
    /\ \/ /\ created < MaxThreads
          /\ created' = created + 1
          /\ procs' = [procs EXCEPT
                          ![p] = NewOp("create", NewId(created), "set",
                                       begun + 1)]
       \/ /\ \E n \in 0..(created - 1), op \in {"update", "delete"} :
               procs' = [procs EXCEPT
                           ![p] = NewOp(op, NewId(n), "exists", begun + 1)]
          /\ UNCHANGED created
    /\ UNCHANGED <<ckv, clists>>
    /\ UNCHANGED notC

\* createChatThread, lines 238 and 241-245
StepCreate(p) ==
    LET o == procs[p]
    IN  /\ o.op = "create"
        /\ \/ /\ o.pc = "set"
              /\ ckv' = Put(ckv, threadKey(TheUser, o.id),
                            Stringify(NewThread(o.id, o.at)))
              /\ procs' = [procs EXCEPT ![p].pc = "rpush"]
              /\ UNCHANGED clists
           \/ /\ o.pc = "rpush"
              /\ clists' = rpush(clists, listKey(TheUser),
                                 Stringify(Summary(o.id, "A", o.at)))
              /\ procs' = [procs EXCEPT ![p] = Done(o, "thread")]
              /\ UNCHANGED ckv
        /\ UNCHANGED <<created, begun>>
        /\ UNCHANGED notC

\* updateChatThread, lines 258, 262-265, 276, 279-280 and 290
StepUpdate(p) ==
    LET o == procs[p]
        key == threadKey(TheUser, o.id)
    IN  /\ o.op = "update"
        /\ \/ /\ o.pc = "exists"
              /\ procs' = [procs EXCEPT
                              ![p] = IF key \in DOMAIN ckv
                                     THEN [o EXCEPT !.pc = "get"]
                                     ELSE Done(o, "null")]
              /\ UNCHANGED <<ckv, clists>>
           \/ /\ o.pc = "get"
              /\ \E asObject \in BOOLEAN :
                   procs' = [procs EXCEPT
                               ![p] = IF key \notin DOMAIN ckv \/ asObject
                                      THEN Done(o, "null")
                                      ELSE [o EXCEPT
                                              !.old = Some(Parse(ckv[key])),
                                              !.pc = "set"]]
              /\ UNCHANGED <<ckv, clists>>
           \/ /\ o.pc = "set"
              /\ ckv' = Put(ckv, key,
                            Stringify(UpdatedThread(o.old[1], o.at)))
              /\ procs' = [procs EXCEPT ![p].pc = "lrange"]
              /\ UNCHANGED clists
           \/ /\ o.pc = "lrange"
              /\ LET threads == getUserChatThreads(clists, TheUser)
                     threadIndex == FindIndex(threads, o.id)
                 IN  procs' = [procs EXCEPT
                                 ![p] = IF threadIndex = 0
                                        THEN Done(o, "thread")
                                        ELSE [o EXCEPT !.threads = threads,
                                                       !.idx = threadIndex,
                                                       !.pc = "lset"]]
              /\ UNCHANGED <<ckv, clists>>
           \/ /\ o.pc = "lset"
              /\ IF o.idx <= Len(lrange(clists, listKey(TheUser)))
                 THEN /\ clists' = [clists EXCEPT
                                      ![listKey(TheUser)][o.idx] =
                                          Stringify(Summary(o.id, "B", o.at))]
                      /\ procs' = [procs EXCEPT ![p] = Done(o, "thread")]
                 ELSE /\ procs' = [procs EXCEPT ![p] = Done(o, "null")]
                      /\ UNCHANGED clists
              /\ UNCHANGED ckv
        /\ UNCHANGED <<created, begun>>
        /\ UNCHANGED notC

\* deleteChatThread, lines 303, 307, 310-311, 312 and 313-315
StepDelete(p) ==
    LET o == procs[p]
        key == threadKey(TheUser, o.id)
    IN  /\ o.op = "delete"
        /\ \/ /\ o.pc = "exists"
              /\ procs' = [procs EXCEPT
                              ![p] = IF key \in DOMAIN ckv
                                     THEN [o EXCEPT !.pc = "del"]
                                     ELSE Done(o, "false")]
              /\ UNCHANGED <<ckv, clists>>
           \/ /\ o.pc = "del"
              /\ ckv' = Remove(ckv, key)
              /\ procs' = [procs EXCEPT ![p].pc = "lrange"]
              /\ UNCHANGED clists
           \/ /\ o.pc = "lrange"
              /\ LET threads == getUserChatThreads(clists, TheUser)
                 IN  procs' = [procs EXCEPT
                                 ![p] = [o EXCEPT
                                           !.threads = threads,
                                           !.todo = FilterOut(threads, o.id),
                                           !.pc = "dellist"]]
              /\ UNCHANGED <<ckv, clists>>
           \/ /\ o.pc = "dellist"
              /\ clists' = Remove(clists, listKey(TheUser))
              /\ procs' = [procs EXCEPT
                              ![p] = IF o.todo = <<>> THEN Done(o, "true")
                                     ELSE [o EXCEPT !.pc = "rpush"]]
              /\ UNCHANGED ckv
           \/ /\ o.pc = "rpush"
              /\ clists' = rpush(clists, listKey(TheUser),
                                 Stringify(Head(o.todo)))
              /\ procs' = [procs EXCEPT
                              ![p] = IF Tail(o.todo) = <<>>
                                     THEN Done([o EXCEPT !.todo = <<>>],
                                               "true")
                                     ELSE [o EXCEPT !.todo = Tail(o.todo)]]
              /\ UNCHANGED ckv
        /\ UNCHANGED <<created, begun>>
        /\ UNCHANGED notC

\* The command the operation waits for rejects.  Inside
\* getUserChatThreads the catch returns [] and the operation goes on with
\* an empty list of threads; anywhere else the catch of the operation
\* returns null or false.
StepFails(p) ==
    LET o == procs[p]
    IN  /\ o.pc \notin {"idle", "done"}
        /\ procs' = [procs EXCEPT
                        ![p] = IF o.pc = "lrange"
                               THEN IF o.op = "update" THEN Done(o, "thread")
                                    ELSE [o EXCEPT !.threads = <<>>,
                                                   !.todo = <<>>,
                                                   !.pc = "dellist"]
                               ELSE Done(o, IF o.op = "delete" THEN "false"
                                            ELSE "null")]
        /\ UNCHANGED <<ckv, clists, created, begun>>
        /\ UNCHANGED notC

----------------------------------------------------------------------------
(* AuthDialog: the form of the authentication dialog and its submit        *)
(* handler, with signIn and signUp of AuthProvider.  The server action is  *)
(* outside; it answers without an error, answers with an error, or         *)
(* rejects.                                                                *)

Tabs == {"sign-in", "sign-up"}
Emails == {"a@example.com", "b@example.com"}
Passwords == {"secret", "other"}
Names == {"", "Ann"}

ServerOutcomes == {"ok", "error", "rejects"}

\* the answer of serverSignIn / serverSignUp, or what it rejects with
ServerError(outcome) ==
    IF outcome = "error" THEN Some("Invalid login credentials")
    ELSE IF outcome = "rejects" THEN Some("fetch failed")
    ELSE None

Returned(value) == [threw |-> FALSE, value |-> value]

\* AuthProvider.signIn, lines 117-149: every path returns a result; the
\* catch turns a rejection into { error, success: false }
signIn(outcome) ==
    IF outcome = "ok"
    THEN Returned([error |-> None, success |-> TRUE])
    ELSE Returned([error |-> ServerError(outcome), success |-> FALSE])

\* AuthProvider.signUp, lines 151-179
signUp(outcome) ==
    IF outcome = "ok"
    THEN Returned([error |-> None, success |-> TRUE])
    ELSE Returned([error |-> ServerError(outcome), success |-> FALSE])

\* the parent shows the dialog
OpenDialog ==
    /\ ~aOpen
    /\ aOpen' = TRUE
    /\ UNCHANGED <<aTab, aEmail, aPassword, aName, aSubmitting, aError,
                   aResult, aFired, apc>>
    /\ UNCHANGED notA

\* onChange of the three inputs
TypeEmail ==
    /\ aOpen /\ apc = "idle"
    /\ \E e \in Emails : aEmail' = e
    /\ UNCHANGED <<aOpen, aTab, aPassword, aName, aSubmitting, aError,
                   aResult, aFired, apc>>
    /\ UNCHANGED notA

TypePassword ==
    /\ aOpen /\ apc = "idle"
    /\ \E w \in Passwords : aPassword' = w
    /\ UNCHANGED <<aOpen, aTab, aEmail, aName, aSubmitting, aError,
                   aResult, aFired, apc>>
    /\ UNCHANGED notA

TypeName ==
    /\ aOpen /\ apc = "idle" /\ aTab = "sign-up"
    /\ \E n \in Names : aName' = n
    /\ UNCHANGED <<aOpen, aTab, aEmail, aPassword, aSubmitting, aError,
                   aResult, aFired, apc>>
    /\ UNCHANGED notA

\* lines 209-212
handleTabChange ==
    /\ aOpen /\ apc = "idle"
    /\ \E tab \in Tabs : aTab' = tab
    /\ aError' = None
    /\ UNCHANGED <<aOpen, aEmail, aPassword, aName, aSubmitting, aResult,
                   aFired, apc>>
    /\ UNCHANGED notA

\* handleSubmit up to its await, lines 180-190; the inputs are required
handleSubmit ==
    /\ aOpen /\ apc = "idle"
    /\ aEmail # "" /\ aPassword # ""
    /\ aError' = None
    /\ aSubmitting' = TRUE
    /\ aResult' = None
    /\ aFired' = FALSE
    /\ apc' = "awaiting"
    /\ UNCHANGED <<aOpen, aTab, aEmail, aPassword, aName>>
    /\ UNCHANGED notA

\* handleSubmit after the await, lines 186-206: the returned result is not
\* looked at; only a throw reaches the catch
SubmitSettles ==
    /\ apc = "awaiting"
    /\ \E outcome \in ServerOutcomes :
          LET r == IF aTab = "sign-in" THEN signIn(outcome)
                   ELSE signUp(outcome)
          IN  /\ aResult' = Some(r.value)
              /\ IF r.threw
                 THEN /\ aError' = r.value.error
                      /\ UNCHANGED <<aEmail, aPassword, aName, aOpen, aFired>>
                 ELSE /\ aEmail' = ""
                      /\ aPassword' = ""
                      /\ aName' = ""
                      /\ aOpen' = FALSE
                      /\ aFired' = TRUE
                      /\ UNCHANGED aError
    /\ aSubmitting' = FALSE
    /\ apc' = "idle"
    /\ UNCHANGED aTab
    /\ UNCHANGED notA

----------------------------------------------------------------------------
(* Specifications *)

Init ==
    /\ tmessages = <<>>
    /\ tmodel = NoModel
    /\ tresult = <<>>
    /\ tpc = "build"
    /\ emitted = <<>>
    /\ serverBuf = <<>>
    /\ closed = FALSE
    /\ arrived = <<>>
    /\ badLines = 0
    /\ pc = "read"
    /\ lines = <<>>
    /\ data = EmptyFrag
    /\ content = <<>>
    /\ citations = None
    /\ startTime = 0
    /\ now = 1
    /\ messages = <<UserMessage, assistantMessage>>
    /\ returned = None
    /\ toasts = <<>>
    /\ uploads = 0
    /\ failure = "none"
    /\ thread = <<>>
    /\ isLoading = FALSE
    /\ upc = "idle"
    /\ uturn = 0
    /\ whint = [pre |-> <<>>, int |-> <<>>, dot |-> <<>>, unit |-> <<>>,
                post |-> <<>>]
    /\ wmessage = None
    /\ wwait = 0
    /\ wpc = "start"
    /\ qcall = NoCall
    /\ qpc = "start"
    /\ qrequests = <<>>
    /\ qresponse = NoResponse
    /\ qtoasts = <<>>
    /\ qerror = None
    /\ kv = <<>>
    /\ lists = <<>>
    /\ clock = 0
    /\ threadCount = 0
    /\ reply = NoReply
    /\ hist = <<>>
    /\ mlist = <<>>
    /\ msetter = "dispatch"
    /\ mcontent = <<>>
    /\ mcitations = None
    /\ mpc = "idle"
    /\ ckv = <<>>
    /\ clists = <<>>
    /\ procs = [p \in Procs |-> IdleOp]
    /\ created = 0
    /\ begun = 0
    /\ aOpen = FALSE
    /\ aTab = "sign-in"
    /\ aEmail = ""
    /\ aPassword = ""
    /\ aName = ""
    /\ aSubmitting = FALSE
    /\ aError = None
    /\ aResult = None
    /\ aFired = FALSE
    /\ apc = "idle"

TNext == PushMessage \/ CallTruncate

SNext ==
    \/ ServerEmit
    \/ ServerClose
    \/ ReadChunk
    \/ ProcessLineCitations
    \/ ProcessLineContent
    \/ ReadDone
    \/ ReadError
    \/ Abort

UNext == Submit \/ TurnDelta \/ TurnDone \/ TurnFail \/ TurnSettled

WNext == ParseHint \/ ParseNoMessage

QNext == Call \/ FetchRejects \/ HandleResponse

MNext ==
    \/ StartCall
    \/ UpdateCitations
    \/ UpdateContent
    \/ UpdateFinal
    \/ UpdateCommand
    \/ UpdateNone

\* The stored threads of the user and the ids of the user's summaries.
StoredIds(k) ==
    {NewId(n) : n \in {m \in 0..MaxOps : threadKey(TheUser, NewId(m)) \in DOMAIN k}}

SummaryIds(ls) ==
    LET threads == getUserChatThreads(ls, TheUser)
    IN  [i \in 1..Len(threads) |-> threads[i].id]

Quiescent == \A p \in Procs : procs[p].pc \in {"idle", "done"}

\* C22: a delete of a thread that does not exist returns false and changes
\* nothing; a delete that returns true leaves no thread under the id and
\* leaves exactly the other summaries in the list, in their previous
\* order; a delete that returns false leaves the thread it was asked to
\* delete in the store.
C22_DeleteOutcome ==
    \A p \in Procs :
        LET o == procs[p]
            key == threadKey(TheUser, o.id)
        IN  (o.op = "delete" /\ o.pc = "done") =>
               /\ key \notin DOMAIN o.kv0 =>
                     /\ o.result = "false"
                     /\ ckv = o.kv0
                     /\ clists = o.lists0
               /\ o.result = "true" =>
                     /\ key \notin DOMAIN ckv
                     /\ getUserChatThreads(clists, TheUser) =
                           FilterOut(getUserChatThreads(o.lists0, TheUser),
                                     o.id)
               /\ (o.result = "false" /\ key \in DOMAIN o.kv0) =>
                     key \in DOMAIN ckv

NoLostSummary ==
    \A id \in StoredIds(ckv) :
        \E i \in DOMAIN SummaryIds(clists) : SummaryIds(clists)[i] = id

NoDuplicateSummary ==
    \A i, j \in DOMAIN SummaryIds(clists) :
        SummaryIds(clists)[i] = SummaryIds(clists)[j] => i = j

\* a step that keeps the length of the list is an lset
NoOverwrite ==
    Len(SummaryIds(clists')) = Len(SummaryIds(clists)) =>
        SummaryIds(clists') = SummaryIds(clists)

\* C26: when the commands of two operations of one user interleave and
\* both operations have finished, every stored thread has its summary in
\* the list and no summary is there twice; and no command replaces a
\* summary by the summary of a thread with another id.
C26_InterleavingConsistent ==
    /\ [](Quiescent => NoLostSummary /\ NoDuplicateSummary)
    /\ [][NoOverwrite]_vars

ANext ==
    \/ OpenDialog
    \/ TypeEmail
    \/ TypePassword
    \/ TypeName
    \/ handleTabChange
    \/ handleSubmit
    \/ SubmitSettles

\* C30: a submit closes the dialog, clears the form and calls onSuccess
\* only when signIn or signUp returned success; when they returned
\* success = false with an error, the dialog stays open and shows the
\* error.
C30_CloseOnlyOnSuccess ==
    [][(apc = "awaiting" /\ apc' = "idle") =>
          /\ (~aOpen' \/ aEmail' = "" \/ aFired') => aResult'[1].success
          /\ ~aResult'[1].success =>
                /\ aOpen'
                /\ aError' = aResult'[1].error
                /\ aError' # None]_vars

\* one caller, commands may fail
FNext ==
    \/ Begin(1)
    \/ StepCreate(1)
    \/ StepUpdate(1)
    \/ StepDelete(1)
    \/ StepFails(1)

\* two callers, no command fails
CNext ==
    \E p \in Procs :
        \/ Begin(p)
        \/ StepCreate(p)
        \/ StepUpdate(p)
        \/ StepDelete(p)

RNext == GetThreads \/ PostThreads \/ GetThread \/ PutThread \/ DeleteThread

SpecTrunc == Init /\ [][TNext]_vars
SpecStream == Init /\ [][SNext]_vars
SpecTurns == Init /\ [][UNext]_vars
SpecWait == Init /\ [][WNext]_vars
SpecRequest == Init /\ [][QNext]_vars
SpecStore == Init /\ [][RNext]_vars
SpecUpdate == Init /\ [][MNext]_vars
SpecAuth == Init /\ [][ANext]_vars
SpecFail == Init /\ [][FNext]_vars
SpecRace == Init /\ [][CNext]_vars

----------------------------------------------------------------------------
(* Properties of the history truncator (SpecTrunc) *)

Bound(modelId) == IF modelId = "exa" THEN 3 ELSE K_MESSAGE_PAIRS * 2

HasUser(msgs) == \E i \in 1..Len(msgs) : msgs[i].role = "user"

\* position of the most recent user message
LastUserIndex(msgs) ==
    CHOOSE i \in 1..Len(msgs) :
        /\ msgs[i].role = "user"
        /\ \A j \in (i + 1)..Len(msgs) : msgs[j].role # "user"

\* the search rule replaces the last element
Substitutes(msgs, modelId) ==
    /\ modelId = "exa"
    /\ Len(msgs) > 0
    /\ msgs[Len(msgs)].role # "user"
    /\ HasUser(msgs)

Occurrences(m, msgs) == Cardinality({i \in 1..Len(msgs) : msgs[i] = m})

\* t is a subsequence of s.  The ids of s are its positions, so t is one iff
\* each element of t is the element of s at its id and the ids increase.
IsSubsequence(t, s) ==
    /\ \A i \in 1..Len(t) :
         /\ t[i].id \in 1..Len(s)
         /\ s[t[i].id] = t[i]
    /\ \A i \in 1..Len(t), j \in 1..Len(t) : i < j => t[i].id < t[j].id

\* C1 as stated: a list no longer than the bound of its model's rule (3 for
\* 'exa', 2K for the others) is returned unchanged.
C1_Original ==
    (tpc = "done" /\ Len(tmessages) <= Bound(tmodel)) => tresult = tmessages

\* C1 amended: a list no longer than the bound is returned unchanged, except
\* under the search rule's substitution, where the result is the input with
\* its last element replaced by the most recent user message.
C1_Identity ==
    (tpc = "done" /\ Len(tmessages) <= Bound(tmodel)) =>
        IF Substitutes(tmessages, tmodel)
        THEN tresult = [tmessages EXCEPT
                 ![Len(tmessages)] = tmessages[LastUserIndex(tmessages)]]
        ELSE tresult = tmessages

C1_Witness ==
    /\ tpc = "done"
    /\ tmodel # "exa"
    /\ Len(tmessages) = K_MESSAGE_PAIRS * 2
    /\ tmessages[Len(tmessages)].role = "assistant"
    /\ tresult = tmessages

\* C2: under the search rule, when the input has a user message the last
\* element of the result is a user message.
C2_LastIsUser ==
    (tpc = "done" /\ tmodel = "exa" /\ HasUser(tmessages)) =>
        /\ Len(tresult) > 0
        /\ tresult[Len(tresult)].role = "user"

C2_Witness ==
    /\ tpc = "done"
    /\ tmodel = "exa"
    /\ Len(tmessages) = 5
    /\ tmessages[1].role = "user"
    /\ \A i \in 2..5 : tmessages[i].role = "assistant"
    /\ tresult[Len(tresult)] = tmessages[1]

\* C3: for a model other than 'exa' and a list longer than 2K, the result
\* is exactly the last 2K messages of the input in their order, whatever
\* their contents.
C3_LastWindow ==
    (tpc = "done" /\ tmodel # "exa" /\ Len(tmessages) > K_MESSAGE_PAIRS * 2) =>
        /\ Len(tresult) = K_MESSAGE_PAIRS * 2
        /\ \A i \in 1..(K_MESSAGE_PAIRS * 2) :
             tresult[i] = tmessages[Len(tmessages) - K_MESSAGE_PAIRS * 2 + i]

C3_Witness ==
    /\ tpc = "done"
    /\ tmodel # "exa"
    /\ Len(tmessages) = K_MESSAGE_PAIRS * 2 + 1
    /\ tmessages[1].size = "long"
    /\ Len(tresult) = K_MESSAGE_PAIRS * 2
    /\ tresult[1] = tmessages[2]

\* C4 as stated: the result is a subsequence of the input, no message
\* occurs in it more often than in the input, and its length is at most 3
\* for 'exa' and at most 2K for the others.
C4_Original ==
    tpc = "done" =>
        /\ IsSubsequence(tresult, tmessages)
        /\ \A i \in 1..Len(tresult) :
             Occurrences(tresult[i], tresult)
                 <= Occurrences(tresult[i], tmessages)
        /\ Len(tresult) <= Bound(tmodel)

\* C4 amended: the result has at most 3 ('exa') or 2K (others) elements,
\* all of them messages of the input; it is a subsequence of the input
\* unless the search rule substitutes, and then its elements before the
\* last are a subsequence of the input and its last element is the input's
\* most recent user message.
C4_BoundedSelection ==
    tpc = "done" =>
        /\ Len(tresult) <= Bound(tmodel)
        /\ \A i \in 1..Len(tresult) : Occurrences(tresult[i], tmessages) > 0
        /\ IF Substitutes(tmessages, tmodel)
           THEN /\ IsSubsequence(SubSeq(tresult, 1, Len(tresult) - 1),
                                 tmessages)
                /\ tresult[Len(tresult)]
                       = tmessages[LastUserIndex(tmessages)]
           ELSE IsSubsequence(tresult, tmessages)

C4_Witness ==
    /\ tpc = "done"
    /\ tmodel = "exa"
    /\ Len(tmessages) = 4
    /\ tmessages[3].role = "user"
    /\ tmessages[4].role = "assistant"
    /\ Len(tresult) = 3
    /\ tresult[2] = tresult[3]

----------------------------------------------------------------------------
(* Properties of the stream aggregator (SpecStream) *)

HasDelta(f) == f.delta # <<>>
HasCitations(f) == f.cit # None

\* the content fragments and the citation fragments among the lines that
\* arrived, each in arrival order
ContentFrags(fs) == SelectSeq(fs, HasDelta)
CitationFrags(fs) == SelectSeq(fs, HasCitations)

\* concatenation of the content deltas, in arrival order
ConcatDeltas(fs) == Flatten([i \in 1..Len(fs) |-> fs[i].delta])

\* the citations of the last citation fragment
LastCitations(fs) ==
    IF CitationFrags(fs) = <<>> THEN None
    ELSE CitationFrags(fs)[Len(CitationFrags(fs))].cit

Elems(q) == {q[i] : i \in 1..Len(q)}

\* every citation of every citation fragment
AllCitations(fs) ==
    UNION {Elems(fs[i].cit[1]) : i \in {j \in 1..Len(fs) : fs[j].cit # None}}

C6_AllCitationsMerged ==
    pc = "done" =>
        /\ messages[Target].citations # None
               => AllCitations(arrived) \subseteq Elems(messages[Target].citations[1])
        /\ messages[Target].citations = None => AllCitations(arrived) = {}
        /\ returned[1].citations = messages[Target].citations

C9_MarkerCompletes ==
    [][(pc = "content" /\ data.fin # "none") => messages'[Target].completed]_vars

\* C10 as stated: once the message is completed no later update changes
\* its content or citations or resets completed.
C10_FrozenOnceCompleted ==
    [][messages[Target].completed =>
          /\ messages'[Target].completed
          /\ messages'[Target].content = messages[Target].content
          /\ messages'[Target].citations = messages[Target].citations]_vars

IsJsonLine(l) == l.k = "json"

\* the fragments of the JSON lines the server emitted, in emission order
EmittedFrags ==
    [i \in 1..Len(SelectSeq(emitted, IsJsonLine)) |->
        SelectSeq(emitted, IsJsonLine)[i].f]

\* C24: however the transport cut the byte stream into chunks, the final
\* content is the concatenation of the content deltas of all the lines the
\* server emitted.
C24_ChunkingIndependent ==
    pc = "done" => messages[Target].content = ConcatDeltas(EmittedFrags)

----------------------------------------------------------------------------
(* Properties of the updates of the message list (SpecUpdate) *)

\* C27: every update changes only the message whose id is
\* assistantMessage.id: the list keeps its length and order and every
\* other message is left as it was, on the streaming path, on the command
\* path and on errors.
C27_OnlyTargetChanges ==
    [][mpc = "running" =>
          /\ Len(mlist') = Len(mlist)
          /\ \A i \in 1..Len(mlist) :
                /\ mlist'[i].id = mlist[i].id
                /\ mlist[i].id # assistantMessage.id =>
                      mlist'[i] = mlist[i]]_vars

----------------------------------------------------------------------------
(* Properties of a thread over several turns (SpecTurns) *)

Incomplete(msgs) == {i \in 1..Len(msgs) : ~msgs[i].completed}

\* C11 as stated: whatever turns were submitted, streamed, completed,
\* failed or cancelled, at most one message of the thread is not completed.
C11_AtMostOneIncomplete == Cardinality(Incomplete(thread)) <= 1

----------------------------------------------------------------------------
(* Cancellation (SpecStream) *)

\* C12: an abort during the read ends the call by rejection without any
\* further update: the message keeps the content and citations of the
\* fragments processed before, nothing is reverted, nothing more is read
\* and no value is returned.
C12_AbortKeepsPartial ==
    [][failure' = "abort" =>
          /\ pc' = "rejected"
          /\ returned' = None
          /\ messages' = messages
          /\ serverBuf' = serverBuf
          /\ messages'[Target].content = ConcatDeltas(arrived')
          /\ messages'[Target].citations = LastCitations(arrived')]_vars

C12_Witness ==
    /\ failure = "abort"
    /\ pc = "rejected"
    /\ serverBuf # <<>>
    /\ messages[Target].content = <<"a", "b">>
    /\ messages[Target].citations = Some(<<"x">>)
    /\ returned = None

----------------------------------------------------------------------------
(* Properties of the wait-time extraction (SpecWait) *)

\* the hint reads 'try again in <n><unit>'
HintWellFormed(h) ==
    /\ h.pre # <<>> /\ h.pre[Len(h.pre)] = TryAgainIn
    /\ h.int # <<>>

\* ten times the number n written in the hint
Tenths(h) ==
    10 * Numeral(h.int) + (IF Len(h.dot) = 2 THEN DigitValue(h.dot[2]) ELSE 0)

\* C15: a hint 'try again in <n>ms' gives the wait time ceil(n / 1000), a
\* hint 'try again in <n>s' gives ceil(n), both in seconds; 'try again in
\* 1500ms' gives 2.
C15_WaitTimeCeil ==
    (wpc = "done" /\ wmessage # None /\ HintWellFormed(whint)) =>
        /\ whint.unit = <<"m", "s">> =>
              wwait = (Tenths(whint) + 9999) \div 10000
        /\ whint.unit = <<"s">> => wwait = (Tenths(whint) + 9) \div 10
        /\ (whint.int = <<"1", "5", "0", "0">> /\ whint.dot = <<>>
                /\ whint.unit = <<"m", "s">>) => wwait = 2

C15_Witness ==
    /\ wpc = "done"
    /\ wmessage = Some(<<"Rate limit reached. ", TryAgainIn, "1", "5", "0",
                         "0", "m", "s", ".">>)
    /\ wwait = 2

\* C29: without error.message, without 'try again in' in it, or with a
\* hint in minutes, the wait time is the default of 30 seconds.
C29_DefaultWithoutHint ==
    (wpc = "done"
        /\ \/ wmessage = None
           \/ ~Includes(whint.pre, TryAgainIn)
           \/ HintWellFormed(whint) /\ whint.unit = <<"m">>) =>
        wwait = DefaultWaitTime

----------------------------------------------------------------------------
(* Properties of the request and its failure handling (SpecRequest) *)

Rejected == qpc = "rejected" /\ qresponse # NoResponse

Count(ts, t) == Cardinality({i \in 1..Len(ts) : ts[i] = t})

\* sign-in notification, 'Authentication required' error, no generic
\* failure notification
AuthTreatment ==
    /\ Count(qtoasts, "Authentication required") = 1
    /\ qerror = Some(Error(AuthenticationRequired))
    /\ Count(qtoasts, "Error processing request") = 0

\* C13: a failed response gets the authentication treatment if and only if
\* its status is 401; any other failure is notified as a rate limit or as a
\* generic failure, whatever its message.
C13_AuthIffStatus401 ==
    Rejected =>
        /\ AuthTreatment <=> qresponse.status = 401
        /\ qresponse.status # 401 => qtoasts # <<>>

\* C14: every 429 response rejects with a RateLimitError that carries a
\* wait time and shows the rate-limit notification exactly once, whatever
\* the content type and the body.
C14_Every429RateLimited ==
    (Rejected /\ qresponse.status = 429) =>
        /\ qerror # None
        /\ qerror[1].name = "RateLimitError"
        /\ qerror[1].waitTime # None
        /\ Count(qtoasts, "RATE LIMIT REACHED") = 1

Endpoints ==
    {"/api/exaanswer", "/api/openrouter", "/api/gemini", "/api/cerebras",
     "/api/xai", "/api/groq"}

\* no entry in the table and no rule on the identifier applies
UnknownModel(call) ==
    /\ ~call.modelConfig.found
    /\ call.selectedModel \notin {<<"exa">>, <<"gemma3-27b">>}
    /\ ~Includes(call.selectedModel, "gemini")

\* a call that is not a slash command has sent its request
Routed == qpc # "start" /\ ~IsCommand(qcall.input)

\* C16: the router chooses one endpoint for every model identifier: 'exa'
\* goes to /api/exaanswer, an unknown identifier to /api/groq, and the
\* multipart flag is set only for /api/gemini with attachments or active
\* files.
C16_RouterTotal ==
    Routed =>
        /\ Len(qrequests) = 1
        /\ qrequests[1].endpoint \in Endpoints
        /\ qcall.selectedModel = <<"exa">> =>
              qrequests[1].endpoint = "/api/exaanswer"
        /\ UnknownModel(qcall) => qrequests[1].endpoint = "/api/groq"
        /\ qrequests[1].formData =>
              /\ qrequests[1].endpoint = "/api/gemini"
              /\ qcall.attachments > 0 \/ qcall.activeFiles > 0

C16_Witness ==
    /\ Routed /\ UnknownModel(qcall)
    /\ qrequests = <<[endpoint |-> "/api/groq", formData |-> FALSE,
                      command |-> "null", query |-> qcall.input]>>
    /\ qcall.attachments > 0
    /\ qpc = "streaming"

\* C17: a call issues exactly one request, and none after a failure.
C17_OneRequest ==
    /\ Len(qrequests) <= 1
    /\ qpc # "start" => Len(qrequests) = 1
    /\ qpc = "rejected" => qerror # None

C17_Witness ==
    /\ qpc = "rejected" /\ qresponse.status = 429
    /\ Len(qrequests) = 1 /\ qrequests[1].endpoint = "/api/command-handler"

\* the text after the command word and the blank that follows it
AfterPrefix(input) == Trim(SubSeq(Trim(input), 3, Len(Trim(input))))

\* the input reads '/movies <q>' or '/tv <q>' with a non-empty q
IsCommandInput(input) ==
    /\ \/ StartsWith(Trim(input), <<"/movies", " ">>)
       \/ StartsWith(Trim(input), <<"/tv", " ">>)
    /\ AfterPrefix(input) # <<>>

\* C28: an input '/movies <q>' or '/tv <q>' with non-empty q is sent to
\* the command handler, with the command word as command and the whole
\* text after the prefix, trimmed, as query.
C28_CommandRequest ==
    (qpc # "start" /\ IsCommandInput(qcall.input)) =>
        /\ Len(qrequests) = 1
        /\ qrequests[1].endpoint = "/api/command-handler"
        /\ qrequests[1].command = Head(Trim(qcall.input))
        /\ qrequests[1].query = AfterPrefix(qcall.input)

----------------------------------------------------------------------------
(* Properties of the thread store and the thread endpoints (SpecStore) *)

\* C18: the list of a user is ordered by recency: a thread created or
\* updated more recently than another stands before it.
C18_ListByRecency ==
    \A u \in Users :
        LET l == getUserChatThreads(lists, u)
        IN  \A a, b \in 1..Len(l) :
                a < b => hist[l[a].id].recency > hist[l[b].id].recency

\* C19: a thread that was created and not touched since is stored under
\* thread:{userId}:{threadId}, is read back with the id, title, messages
\* and model given at creation, and has its summary in the user's list.
C19_CreateGetRoundTrip ==
    \A id \in DOMAIN hist :
        (~hist[id].updated /\ ~hist[id].deleted) =>
            LET got == getChatThread(kv, hist[id].user, id)
                l == getUserChatThreads(lists, hist[id].user)
            IN  /\ ("thread:" \o hist[id].user \o ":" \o id) \in DOMAIN kv
                /\ got # None
                /\ got[1].id = id
                /\ got[1].title = hist[id].title
                /\ got[1].messages = hist[id].messages
                /\ got[1].model = hist[id].model
                /\ \E i \in 1..Len(l) :
                      l[i] = Summary(id, hist[id].title, got[1].updatedAt)

OwnedBy(u) == {id \in DOMAIN hist : hist[id].user = u}

\* what user u has in the store: the threads u created and u's list
ViewOf(u) ==
    <<[id \in OwnedBy(u) |-> getChatThread(kv, u, id)],
      lrange(lists, listKey(u))>>

\* every thread and summary in the reply was created by the caller
ReturnsOwn ==
    /\ reply.thread # None => hist[reply.thread[1].id].user = reply.caller
    /\ \A i \in 1..Len(reply.threads) :
          hist[reply.threads[i].id].user = reply.caller

\* a request by id for a thread of another user finds nothing
ForeignAbsent ==
    (reply.id \in DOMAIN hist /\ reply.caller \in Users
        /\ hist[reply.id].user # reply.caller) =>
        /\ reply.thread = None
        /\ reply.op = "GET" => reply.status = 404
        /\ reply.op = "PUT" => reply.status \in {400, 404}
        /\ reply.op = "DELETE" => reply.status = 500

\* C20: a request of one user returns only threads of that user and
\* leaves the threads and the list of every other user as they were; get,
\* update and delete of another user's thread report it absent.
C20_UserIsolation ==
    [][/\ \A u \in Users : u # reply'.caller => ViewOf(u)' = ViewOf(u)
       /\ ReturnsOwn'
       /\ ForeignAbsent']_vars

C20_Witness ==
    /\ reply.op = "DELETE" /\ reply.caller = "u1" /\ reply.id = "t1"
    /\ reply.status = 500
    /\ "t1" \in DOMAIN hist /\ hist["t1"].user = "u2"
    /\ getChatThread(kv, "u2", "t1") # None
    /\ Len(lrange(lists, listKey("u2"))) = 1

\* C21: a request without an authenticated user is answered with 401 and
\* authRequired, whatever its body and the state of the store.
C21_AnonymousGets401 ==
    (reply.op # "none" /\ reply.caller = Anonymous) =>
        reply.status = 401 /\ reply.authRequired

\* the old thread with the fields of the request overriding it
ExpectedUpdate(old, body, at) ==
    [old EXCEPT !.messages = body.messages,
                !.title = IF body.title # "" THEN body.title ELSE old.title,
                !.model = IF body.model # Undefined THEN body.model
                          ELSE old.model,
                !.updatedAt = at]

\* C23: an update of an existing thread stores and returns the old thread
\* with the given fields overriding it, updatedAt refreshed and createdAt
\* kept, and rewrites the thread's summary in its place in the list, all
\* other summaries unchanged; an update of a missing thread returns absent
\* and writes nothing.
C23_UpdateStoresAndReturns ==
    [][(reply'.op = "PUT" /\ reply'.caller \in Users
            /\ reply'.status # 400) =>
         LET u == reply'.caller
             id == reply'.id
             old == getChatThread(kv, u, id)
             l == getUserChatThreads(lists, u)
             ll == getUserChatThreads(lists', u)
         IN  IF old = None
             THEN reply'.thread = None /\ kv' = kv /\ lists' = lists
             ELSE /\ reply'.thread # None
                  /\ \E body \in Bodies :
                        /\ body.valid
                        /\ reply'.thread =
                              Some(ExpectedUpdate(old[1], body, clock'))
                  /\ clock' > clock
                  /\ reply'.thread[1].createdAt = old[1].createdAt
                  /\ getChatThread(kv', u, id) = reply'.thread
                  /\ Len(ll) = Len(l)
                  /\ \A i \in 1..Len(l) :
                        ll[i] = IF l[i].id = id
                                THEN Summary(id, reply'.thread[1].title,
                                             clock')
                                ELSE l[i]]_vars

\* C25: the list of a user holds exactly one summary for each existing
\* thread key of that user, none for a deleted or never created thread, and
\* the title of each summary is the title of the stored thread.
C25_ListMatchesKeys ==
    \A u \in Users :
        LET l == getUserChatThreads(lists, u)
        IN  /\ \A a, b \in 1..Len(l) : l[a].id = l[b].id => a = b
            /\ \A i \in 1..Len(l) :
                  /\ l[i].id \in DOMAIN hist
                  /\ ~hist[l[i].id].deleted
                  /\ threadKey(u, l[i].id) \in DOMAIN kv
                  /\ l[i].title = Parse(kv[threadKey(u, l[i].id)]).title
            /\ \A key \in DOMAIN kv :
                  \A id \in DOMAIN hist :
                      key = threadKey(u, id) =>
                          \E i \in 1..Len(l) : l[i].id = id

C25_Witness ==
    /\ "t1" \in DOMAIN hist /\ hist["t1"].user = "u1"
    /\ hist["t1"].updated /\ ~hist["t1"].deleted
    /\ hist["t1"].title # "A"
    /\ getUserChatThreads(lists, "u1") = <<Summary("t1", "A", 2)>>
    /\ getChatThread(kv, "u1", "t1")[1].title = "A"
    /\ reply.op = "DELETE" /\ reply.status = 500

====
